---- MODULE Spec2Model ----
(***************************************************************************)
(* Model of lonely.scriptlib.gnuplot (Spec, load, dumps, loads) and of     *)
(* lonely.decorator.memoize.                                               *)
(*                                                                         *)
(* A Python str is a sequence of one-character strings.  A number is a     *)
(* record [kind, tenths]: kind "int" or "float" with the value tenths/10,  *)
(* or kind "nan".  A call's outcome is a record [err, val]: err = "" when  *)
(* the call returned val, otherwise the name of the exception raised.      *)
(***************************************************************************)
EXTENDS Integers, Sequences, FiniteSets, TLC

VARIABLES spec, attempt, data, s, text, orig, out, ref, edits, pc,
          lookup, stack, log

vars == <<spec, attempt, data, s, text, orig, out, ref, edits, pc,
          lookup, stack, log>>

----------------------------------------------------------------------------
(* Python str primitives used by gnuplot.py *)

NL == "\n"

\* gnuplot.py line 52: WHITESPACE = set(' \n\r\t')
WHITESPACE == {" ", "\n", "\r", "\t"}

Digits == <<"0", "1", "2", "3", "4", "5", "6", "7", "8", "9">>

DigitSet == {Digits[i] : i \in 1..10}

DigitVal(c) == (CHOOSE i \in 1..10 : Digits[i] = c) - 1

Returned(v) == [err |-> "", val |-> v]

Raised(e) == [err |-> e, val |-> <<>>]

RECURSIVE Flatten(_)
\* concatenation of a sequence of sequences
Flatten(ss) == IF ss = <<>> THEN <<>> ELSE Head(ss) \o Flatten(Tail(ss))

RECURSIVE Join(_, _)
\* sep.join(parts)
Join(sep, parts) ==
    IF parts = <<>> THEN <<>>
    ELSE IF Len(parts) = 1 THEN parts[1]
    ELSE parts[1] \o sep \o Join(sep, Tail(parts))

RECURSIVE LStrip(_)
LStrip(str) ==
    IF str # <<>> /\ Head(str) \in WHITESPACE THEN LStrip(Tail(str)) ELSE str

RECURSIVE RStrip(_)
RStrip(str) ==
    IF str # <<>> /\ str[Len(str)] \in WHITESPACE
    THEN RStrip(SubSeq(str, 1, Len(str) - 1))
    ELSE str

\* line.strip()
Strip(str) == RStrip(LStrip(str))

\* line.startswith(prefix)
StartsWith(str, prefix) ==
    /\ Len(prefix) <= Len(str)
    /\ SubSeq(str, 1, Len(prefix)) = prefix

RECURSIVE SplitSep(_, _, _)
\* str.split(sep) for a non-empty separator: the pieces between the
\* non-overlapping occurrences of sep found scanning left to right; cur is the
\* piece being collected.
SplitSep(str, sep, cur) ==
    IF str = <<>> THEN <<cur>>
    ELSE IF StartsWith(str, sep)
         THEN <<cur>> \o SplitSep(SubSeq(str, Len(sep) + 1, Len(str)), sep, <<>>)
         ELSE SplitSep(Tail(str), sep, Append(cur, Head(str)))

Split(str, sep) == SplitSep(str, sep, <<>>)

RECURSIVE SplitWs(_, _)
\* str.split() with no argument: the maximal runs of non-whitespace
SplitWs(str, cur) ==
    IF str = <<>> THEN (IF cur = <<>> THEN <<>> ELSE <<cur>>)
    ELSE IF Head(str) \in WHITESPACE
         THEN (IF cur = <<>> THEN <<>> ELSE <<cur>>) \o SplitWs(Tail(str), <<>>)
         ELSE SplitWs(Tail(str), Append(cur, Head(str)))

RECURSIVE FileLines(_, _)
\* iteration over a text file: each line ends after its line break, and a last
\* line without one is yielded when it is not empty
FileLines(str, cur) ==
    IF str = <<>> THEN (IF cur = <<>> THEN <<>> ELSE <<cur>>)
    ELSE IF Head(str) = NL
         THEN <<Append(cur, NL)>> \o FileLines(Tail(str), <<>>)
         ELSE FileLines(Tail(str), Append(cur, Head(str)))

----------------------------------------------------------------------------
(* Numbers: str() and float() *)

Int_(n) == [kind |-> "int", tenths |-> 10 * n]

Float_(t) == [kind |-> "float", tenths |-> t]

NaN == [kind |-> "nan", tenths |-> 0]

\* Python == on two numbers: a NaN equals nothing, an int equals the float of
\* the same value
NumEq(a, b) == a.kind # "nan" /\ b.kind # "nan" /\ a.tenths = b.tenths

RECURSIVE NatStr(_)
NatStr(n) ==
    IF n < 10 THEN <<Digits[n + 1]>>
    ELSE NatStr(n \div 10) \o <<Digits[(n % 10) + 1]>>

Abs(n) == IF n < 0 THEN -n ELSE n

\* mutant of PyStr: the number formatted without its fraction, as '%d' would
PyStr_NoFraction(x) ==
    IF x.kind = "nan" THEN <<"n", "a", "n">>
    ELSE (IF x.tenths < 0 THEN <<"-">> ELSE <<>>) \o NatStr(Abs(x.tenths) \div 10)

\* str(x) of a number (the shortest decimal that reads back as x): "3", "-2.5",
\* "1.0", "nan"
PyStr(x) ==
    IF x.kind = "nan" THEN <<"n", "a", "n">>
    ELSE LET a == Abs(x.tenths)
             sign == IF x.tenths < 0 THEN <<"-">> ELSE <<>>
         IN  IF x.kind = "int" THEN sign \o NatStr(a \div 10)
             ELSE sign \o NatStr(a \div 10) \o <<".">> \o <<Digits[(a % 10) + 1]>>

RECURSIVE NatVal(_, _)
NatVal(ds, acc) ==
    IF ds = <<>> THEN acc ELSE NatVal(Tail(ds), 10 * acc + DigitVal(Head(ds)))

AllDigits(ds) == \A i \in 1..Len(ds) : ds[i] \in DigitSet

\* float(tok) on the literals the modelled texts hold: [sign] digits
\* [. digits] with the fraction's digits after the first all zero, and "nan".
\* Anything else raises ValueError.
ParseFloat(tok) ==
    LET signed == tok # <<>> /\ Head(tok) \in {"-", "+"}
        neg == tok # <<>> /\ Head(tok) = "-"
        body == IF signed THEN Tail(tok) ELSE tok
        parts == Split(body, <<".">>)
        ip == parts[1]
        fp == IF Len(parts) = 2 THEN parts[2] ELSE <<>>
        mag == 10 * NatVal(ip, 0) + (IF fp = <<>> THEN 0 ELSE DigitVal(fp[1]))
    IN  IF body = <<"n", "a", "n">> THEN Returned(NaN)
        ELSE IF /\ Len(parts) <= 2
                /\ AllDigits(ip) /\ AllDigits(fp)
                /\ ip \o fp # <<>>
                /\ \A i \in 2..Len(fp) : fp[i] = "0"
             THEN Returned(Float_(IF neg THEN -mag ELSE mag))
             ELSE Raised("ValueError")

----------------------------------------------------------------------------
(* class Spec *)

Range(f) == {f[i] : i \in DOMAIN f}

\* d = {c: i for (i, c) in enumerate(start)}; d[c]: a later index replaces an
\* earlier one
LastIndex(start, c) ==
    (CHOOSE i \in 1..Len(start) :
        start[i] = c /\ \A j \in (i + 1)..Len(start) : start[j] # c) - 1

\* mutant of solve_permutation: the two checks for duplicates are missing
solve_permutation_NoDuplicateCheck(start, end) ==
    IF Range(start) # Range(end) THEN Raised("ValueError")
    ELSE LET res == [k \in 1..Len(end) |-> LastIndex(start, end[k])]
         IN  IF [k \in 1..Len(res) |-> start[res[k] + 1]] = end
             THEN Returned(res)
             ELSE Raised("AssertionError")

\* Spec._solve_permutation(start, end): the 0-based indices out with
\* start[out[k]] = end[k]
solve_permutation(start, end) ==
    IF Range(start) # Range(end) THEN Raised("ValueError")
    ELSE IF Len(start) # Cardinality(Range(start)) THEN Raised("ValueError")
    ELSE IF Len(end) # Cardinality(Range(end)) THEN Raised("ValueError")
    ELSE LET res == [k \in 1..Len(end) |-> LastIndex(start, end[k])]
         IN  IF [k \in 1..Len(res) |-> start[res[k] + 1]] = end
             THEN Returned(res)
             ELSE Raised("AssertionError")

\* mutant of SpecNew: _gnu_to_arr is solved in the direction of _arr_to_gnu
SpecNew_SameDirection(comment, gnu_order, json_order) ==
    LET a2g == solve_permutation(json_order, gnu_order)
    IN  IF a2g.err # "" THEN Raised(a2g.err)
        ELSE Returned([comment |-> comment,
                       gnu_order |-> gnu_order,
                       arr_order |-> json_order,
                       arr_to_gnu |-> a2g.val,
                       gnu_to_arr |-> a2g.val])

\* Spec.__init__(comment, gnu_order, json_order)
SpecNew(comment, gnu_order, json_order) ==
    LET a2g == solve_permutation(json_order, gnu_order)
        g2a == solve_permutation(gnu_order, json_order)
    IN  IF a2g.err # "" THEN Raised(a2g.err)
        ELSE IF g2a.err # "" THEN Raised(g2a.err)
        ELSE Returned([comment |-> comment,
                       gnu_order |-> gnu_order,
                       arr_order |-> json_order,
                       arr_to_gnu |-> a2g.val,
                       gnu_to_arr |-> g2a.val])

\* Spec.comment(comment)
SpecComment(sp, comment) == SpecNew(comment, sp.gnu_order, sp.arr_order)

\* Spec.order(gnu, json)
SpecOrder(sp, gnu, json) == SpecNew(sp.comment, gnu, json)

\* Spec.has_nontrivial_order()
has_nontrivial_order(sp) == sp.gnu_order # sp.arr_order

\* dumps tests the attribute spec.has_nontrivial_order without calling it: the
\* truth value of a bound method, which is True whatever the orders are
has_nontrivial_order_attr(sp) == TRUE

----------------------------------------------------------------------------
(* numpy.transpose on a list nested to four levels *)

NDIM == 4

RECURSIVE ShapeOf(_, _)
\* The shape numpy.array finds for x nested to depth levels: the lengths from
\* the outside in, ending at an empty list; rect is FALSE when two lists of one
\* level differ in shape (numpy builds no array of NDIM axes from it).
ShapeOf(x, depth) ==
    IF depth = 0 THEN [rect |-> TRUE, dims |-> <<>>]
    ELSE IF Len(x) = 0 THEN [rect |-> TRUE, dims |-> <<0>>]
    ELSE LET subs == {ShapeOf(x[i], depth - 1) : i \in 1..Len(x)}
         IN  IF Cardinality(subs) = 1 /\ \A c \in subs : c.rect
             THEN [rect |-> TRUE,
                   dims |-> <<Len(x)>> \o (CHOOSE c \in subs : TRUE).dims]
             ELSE [rect |-> FALSE, dims |-> <<>>]

\* the numbers of a grid of NDIM axes
Cells(a) ==
    UNION {UNION {UNION {Range(a[i][j][k]) : k \in DOMAIN a[i][j]}
                  : j \in DOMAIN a[i]} : i \in DOMAIN a}

\* numpy gives the array one dtype: float64 as soon as one number is a float
AsDtype(x, allInt) ==
    IF allInt \/ x.kind # "int" THEN x ELSE Float_(x.tenths)

\* numpy.transpose(data, axes), as nested lists: ValueError when data is not an
\* array of NDIM axes or axes is no permutation of them; otherwise the array t
\* with t[j0][j1][j2][j3] = data[i0][i1][i2][i3] where i[axes[k]] = j[k]
NpTranspose(a, axes) ==
    LET sh == ShapeOf(a, NDIM)
    IN  IF ~sh.rect \/ Len(sh.dims) # NDIM \/ Len(axes) # NDIM
           \/ Range(axes) # 0..(NDIM - 1)
        THEN Raised("ValueError")
        ELSE LET allInt == \A x \in Cells(a) : x.kind = "int"
                 n == [k \in 1..NDIM |-> sh.dims[axes[k] + 1]]
                 src(j) == [m \in 1..NDIM |->
                              j[CHOOSE k \in 1..NDIM : axes[k] + 1 = m]]
                 at(i) == AsDtype(a[i[1]][i[2]][i[3]][i[4]], allInt)
             IN  Returned([j0 \in 1..n[1] |-> [j1 \in 1..n[2] |->
                           [j2 \in 1..n[3] |-> [j3 \in 1..n[4] |->
                              at(src(<<j0, j1, j2, j3>>))]]]])

----------------------------------------------------------------------------
(* dumps, load, loads *)

\* ' '.join(map(str, line))
DumpLine(line) == Join(<<" ">>, [i \in 1..Len(line) |-> PyStr(line[i])])

\* '\n'.join(... for line in block)
DumpBlock(block) == Join(<<NL>>, [i \in 1..Len(block) |-> DumpLine(block[i])])

\* '\n\n'.join(... for block in index_block)
DumpIndexBlock(ib) ==
    Join(<<NL, NL>>, [i \in 1..Len(ib) |-> DumpBlock(ib[i])])

\* '\n\n\n'.join(... for index_block in data)
DumpData(d) ==
    Join(<<NL, NL, NL>>, [i \in 1..Len(d) |-> DumpIndexBlock(d[i])])

\* dumps(data, spec)
dumps(d, sp) ==
    IF has_nontrivial_order_attr(sp)
    THEN LET t == NpTranspose(d, sp.arr_to_gnu)
         IN  IF t.err # "" THEN Raised(t.err) ELSE Returned(DumpData(t.val))
    ELSE Returned(DumpData(d))

\* is_blank(s), load's local function
is_blank(str) == Range(str) \ WHITESPACE = {}

NotBlank(str) == ~is_blank(str)

\* mutant of LoadLines: the prefix is looked for at the start of the line as
\* read, before it is stripped
LoadLines_PrefixBeforeStrip(txt, sp) ==
    LET raw == FileLines(txt, <<>>)
        keep(line) == ~StartsWith(line, sp.comment)
        kept == IF sp.comment # <<>> THEN SelectSeq(raw, keep) ELSE raw
    IN  [i \in 1..Len(kept) |-> Strip(kept[i])]

\* lines = [line.strip() for line in file], then without the lines that start
\* with the comment prefix when the prefix is not empty
LoadLines(txt, sp) ==
    LET raw == FileLines(txt, <<>>)
        stripped == [i \in 1..Len(raw) |-> Strip(raw[i])]
        keep(line) == ~StartsWith(line, sp.comment)
    IN  IF sp.comment # <<>> THEN SelectSeq(stripped, keep) ELSE stripped

\* [float(x) for x in line.split()], each float() with its outcome
ParseLine(line) ==
    LET toks == SplitWs(line, <<>>) IN [i \in 1..Len(toks) |-> ParseFloat(toks[i])]

ParseBlock(block) ==
    LET ls == Split(block, <<NL>>) IN [i \in 1..Len(ls) |-> ParseLine(ls[i])]

ParseIndexBlock(ib) ==
    LET bs == SelectSeq(Split(ib, <<NL, NL>>), NotBlank)
    IN  [i \in 1..Len(bs) |-> ParseBlock(bs[i])]

\* mutant of ParseData: the blank chunks between datasets are kept
ParseData_KeepBlank(concat) ==
    LET ibs == Split(concat, <<NL, NL, NL>>)
    IN  [i \in 1..Len(ibs) |-> ParseIndexBlock(ibs[i])]

ParseData(concat) ==
    LET ibs == SelectSeq(Split(concat, <<NL, NL, NL>>), NotBlank)
    IN  [i \in 1..Len(ibs) |-> ParseIndexBlock(ibs[i])]

\* mutant of load: the array is transposed with _arr_to_gnu, the map of dumps
load_ArrToGnu(txt, sp) ==
    LET concat == Join(<<NL>>, LoadLines(txt, sp))
        parsed == ParseData(concat)
        bad == \E i \in DOMAIN parsed : \E j \in DOMAIN parsed[i] :
                 \E k \in DOMAIN parsed[i][j] : \E l \in DOMAIN parsed[i][j][k] :
                    parsed[i][j][k][l].err # ""
        d == [i \in DOMAIN parsed |-> [j \in DOMAIN parsed[i] |->
               [k \in DOMAIN parsed[i][j] |-> [l \in DOMAIN parsed[i][j][k] |->
                  parsed[i][j][k][l].val]]]]
    IN  IF bad THEN Raised("ValueError")
        ELSE IF has_nontrivial_order(sp)
             THEN NpTranspose(d, sp.arr_to_gnu)
             ELSE Returned(d)

\* load(file, spec) on the file's text
load(txt, sp) ==
    LET concat == Join(<<NL>>, LoadLines(txt, sp))
        parsed == ParseData(concat)
        bad == \E i \in DOMAIN parsed : \E j \in DOMAIN parsed[i] :
                 \E k \in DOMAIN parsed[i][j] : \E l \in DOMAIN parsed[i][j][k] :
                    parsed[i][j][k][l].err # ""
        d == [i \in DOMAIN parsed |-> [j \in DOMAIN parsed[i] |->
               [k \in DOMAIN parsed[i][j] |-> [l \in DOMAIN parsed[i][j][k] |->
                  parsed[i][j][k][l].val]]]]
    IN  IF bad THEN Raised("ValueError")
        ELSE IF has_nontrivial_order(sp)
             THEN NpTranspose(d, sp.gnu_to_arr)
             ELSE Returned(d)

\* loads(s, spec)
loads(str, sp) == load(str, sp)

----------------------------------------------------------------------------
(* Inputs *)

\* the longest list at any level of a generated grid
MaxDim == 2

\* the most numbers a generated grid holds
MaxCells == 8

\* Spec.__init__'s default orders, 'dblw'
DBLW == <<"d", "b", "l", "w">>

\* Spec.__init__'s default comment prefix, '#'
HASH == <<"#">>

\* the orders that permute the default labels
Perms == {p \in [1..NDIM -> Range(DBLW)] : Range(p) = Range(DBLW)}

\* shapes of the generated grids; the levels below an empty list do not exist
Shapes ==
    {n \in [1..NDIM -> 0..MaxDim] :
        /\ n[1] * n[2] * n[3] * n[4] <= MaxCells
        /\ \A k \in 1..NDIM : n[k] = 0 => \A m \in (k + 1)..NDIM : n[m] = 1}

Kinds == {"float", "int", "mixed", "nan"}

\* the number at index (i, j, k, l): distinct at distinct indices
CellVal(kind, i, j, k, l) ==
    LET id == (((i - 1) * (MaxDim + 2) + (j - 1)) * (MaxDim + 2) + (k - 1))
                 * (MaxDim + 2) + (l - 1)
    IN  CASE kind = "float" -> Float_(15 - 5 * id)
          [] kind = "int" -> Int_(id - 1)
          [] kind = "mixed" ->
               IF (i + j + k + l) % 2 = 0 THEN Int_(id - 1) ELSE Float_(15 - 5 * id)
          [] OTHER -> IF id = 0 THEN NaN ELSE Float_(15 - 5 * id)

MakeGrid(n, kind) ==
    [i \in 1..n[1] |-> [j \in 1..n[2] |-> [k \in 1..n[3] |-> [l \in 1..n[4] |->
        CellVal(kind, i, j, k, l)]]]]

ButLast(q) == SubSeq(q, 1, Len(q) - 1)

RECURSIVE CutLast(_, _)
\* g with the last element of its last list at the given level removed; level 0
\* is g itself.  This is how the jagged grids are made.
CutLast(g, level) ==
    IF g = <<>> THEN g
    ELSE IF level = 0 THEN ButLast(g)
    ELSE [g EXCEPT ![Len(g)] = CutLast(g[Len(g)], level - 1)]

Grids ==
    {MakeGrid(n, kind) : n \in Shapes, kind \in Kinds} \cup
    {CutLast(MakeGrid(n, kind), level) :
        n \in Shapes, kind \in Kinds, level \in 1..(NDIM - 1)}

\* Python == on two grids: the same lengths at every level and equal numbers
GridEq(a, b) ==
    /\ Len(a) = Len(b)
    /\ \A i \in DOMAIN a :
        /\ Len(a[i]) = Len(b[i])
        /\ \A j \in DOMAIN a[i] :
            /\ Len(a[i][j]) = Len(b[i][j])
            /\ \A k \in DOMAIN a[i][j] :
                /\ Len(a[i][j][k]) = Len(b[i][j][k])
                /\ \A l \in DOMAIN a[i][j][k] :
                     NumEq(a[i][j][k][l], b[i][j][k][l])

NoCall == Returned(<<>>)

----------------------------------------------------------------------------
(* Encode then decode: dumps(data, spec), then loads of the string *)

IdleCtor == attempt = <<>>

IdleText == text = <<>> /\ orig = <<>> /\ ref = NoCall /\ edits = 0

IdleMemo == lookup = <<>> /\ stack = <<>> /\ log = <<>>

InitCodec ==
    /\ \E gnu \in Perms, json \in Perms :
         spec = SpecOrder(SpecNew(HASH, DBLW, DBLW).val, gnu, json).val
    /\ data \in Grids
    /\ s = NoCall
    /\ out = NoCall
    /\ pc = "start"
    /\ IdleCtor /\ IdleText /\ IdleMemo

\* s = dumps(data, spec)
Dumps ==
    /\ pc = "start"
    /\ s' = dumps(data, spec)
    /\ pc' = IF s'.err = "" THEN "dumped" ELSE "done"
    /\ UNCHANGED <<spec, attempt, data, text, orig, out, ref, edits,
                   lookup, stack, log>>

\* out = loads(s, spec)
Loads ==
    /\ pc = "dumped"
    /\ out' = loads(s.val, spec)
    /\ pc' = "done"
    /\ UNCHANGED <<spec, attempt, data, s, text, orig, ref, edits,
                   lookup, stack, log>>

NextCodec == Dumps \/ Loads

SpecCodec == InitCodec /\ [][NextCodec]_vars

----------------------------------------------------------------------------
(* Claims about dumps followed by loads, under SpecCodec *)

IsDefaultSpec == spec = SpecNew(HASH, DBLW, DBLW).val

\* no two lists of one level of data differ in shape
NonRagged == ShapeOf(data, NDIM).rect

\* data is non-ragged and has all four levels: datasets, blocks, rows and a
\* last level of fields, which alone may be empty
FourLevelGrid ==
    ShapeOf(data, NDIM).rect /\ Len(ShapeOf(data, NDIM).dims) = NDIM

\* data has at least one dataset, and every dataset, block and row of it holds
\* at least one element
AllLevelsNonEmpty ==
    LET sh == ShapeOf(data, NDIM)
    IN  sh.rect /\ Len(sh.dims) = NDIM /\ \A k \in 1..NDIM : sh.dims[k] >= 1

NoNaN == \A x \in Cells(data) : x.kind # "nan"

RoundTrips == s.err = "" /\ out.err = "" /\ GridEq(out.val, data)

\* C1 as stated: under the default Spec, every non-ragged 4-level grid g has
\* loads(dumps(g)) numerically equal to g.
C1_RoundTripAnyNonRagged ==
    (pc = "done" /\ IsDefaultSpec /\ FourLevelGrid) => RoundTrips

\* C1, amended: under the default Spec, every non-ragged 4-level grid g that
\* has no empty list at any of its four levels and holds no NaN has
\* loads(dumps(g)) numerically equal to g.
C1_RoundTripDefault ==
    (pc = "done" /\ IsDefaultSpec /\ AllLevelsNonEmpty /\ NoNaN) => RoundTrips

C1_Witness ==
    /\ pc = "done" /\ IsDefaultSpec /\ AllLevelsNonEmpty /\ NoNaN
    /\ Len(data) = 2
    /\ \E x \in Cells(data) : x.kind = "int"
    /\ \E x \in Cells(data) : x.kind = "float" /\ x.tenths < 0
    /\ out.err = ""

\* C2 as stated: for every Spec whose orders are permutations of the same four
\* labels and every non-ragged 4-level grid g, loads(dumps(g, spec), spec) == g.
C2_PermRoundTripAnyNonRagged ==
    (pc = "done" /\ FourLevelGrid) => RoundTrips

\* C2, amended: for every Spec whose orders are permutations of the same four
\* labels and every non-ragged grid g that has no empty list at any of its four
\* levels and holds no NaN, loads(dumps(g, spec), spec) == g: the axis map
\* _arr_to_gnu followed by _gnu_to_arr is the identity on the four levels.
C2_PermRoundTrip ==
    (pc = "done" /\ AllLevelsNonEmpty /\ NoNaN) =>
        /\ RoundTrips
        /\ \A k \in 1..NDIM :
             spec.arr_to_gnu[spec.gnu_to_arr[k] + 1] = k - 1

C2_Witness ==
    /\ pc = "done" /\ AllLevelsNonEmpty /\ NoNaN
    /\ spec.gnu_order # DBLW
    /\ spec.gnu_to_arr # spec.arr_to_gnu
    /\ ShapeOf(data, NDIM).dims = <<2, 1, 2, 1>>
    /\ out.err = ""

\* C3: dumps([], spec) returns the empty string.
C3_DumpsEmptyGrid ==
    (pc # "start" /\ data = <<>>) => s = Returned(<<>>)

\* C10: when fileOrder == logicalOrder, dumps runs no transposition and a
\* jagged grid is serialized by the join rules alone.
C10_DumpsJaggedTrivialOrder ==
    (pc # "start" /\ ~has_nontrivial_order(spec) /\ ~NonRagged) =>
        s = Returned(DumpData(data))

----------------------------------------------------------------------------
(* Construction of Spec objects: Spec(...), spec.order(...), spec.comment(...) *)

\* the longest order string drawn over CtorAlphabet
MaxOrderLen == 2

CtorAlphabet == {"a", "b"}

\* order strings handed to the constructor: every string over CtorAlphabet up
\* to MaxOrderLen, and four-label orders with and without a repeated or
\* foreign label
OrderInputs ==
    UNION {[1..n -> CtorAlphabet] : n \in 0..MaxOrderLen} \cup
    {DBLW, <<"w", "d", "b", "l">>, <<"d", "b", "a", "a">>, <<"d", "b", "l", "z">>}

CommentInputs == {HASH, <<>>}

InitCtor ==
    /\ spec = SpecNew(HASH, DBLW, DBLW).val
    /\ attempt = <<>>
    /\ pc = "start"
    /\ data = <<>> /\ s = NoCall /\ out = NoCall
    /\ IdleText /\ IdleMemo

\* the state after a construction call: the new object when it returned, the
\* object held before when it raised
Constructed(res, gnu, json) ==
    /\ attempt' = <<[gnu |-> gnu, json |-> json, err |-> res.err]>>
    /\ spec' = IF res.err = "" THEN res.val ELSE spec
    /\ UNCHANGED <<data, s, text, orig, out, ref, edits, pc, lookup, stack, log>>

\* Spec(comment, gnu_order, json_order)
New(comment, gnu, json) == Constructed(SpecNew(comment, gnu, json), gnu, json)

\* spec.order(gnu, json)
Order(gnu, json) == Constructed(SpecOrder(spec, gnu, json), gnu, json)

\* spec.comment(comment)
Comment(comment) ==
    Constructed(SpecComment(spec, comment), spec.gnu_order, spec.arr_order)

NextCtor ==
    \/ \E c \in CommentInputs, gnu \in OrderInputs, json \in OrderInputs :
         New(c, gnu, json)
    \/ \E gnu \in OrderInputs, json \in OrderInputs : Order(gnu, json)
    \/ \E c \in CommentInputs : Comment(c)

SpecCtor == InitCtor /\ [][NextCtor]_vars

HasDuplicate(order) == Len(order) # Cardinality(Range(order))

InvalidOrders(gnu, json) ==
    \/ Range(gnu) # Range(json)
    \/ HasDuplicate(gnu)
    \/ HasDuplicate(json)
    \/ Len(gnu) # Len(json)

\* C5: constructing a Spec, directly or through order(), whose orders have
\* different symbol sets, a duplicate symbol or different lengths raises
\* ValueError, and the Spec object that load and dumps are given never has
\* such orders.
C5_InvalidOrdersRejected ==
    /\ ~InvalidOrders(spec.gnu_order, spec.arr_order)
    /\ \A i \in DOMAIN attempt :
         InvalidOrders(attempt[i].gnu, attempt[i].json) =>
             attempt[i].err = "ValueError"

C5_Witness ==
    /\ attempt # <<>>
    /\ attempt[1].err = "ValueError"
    /\ Range(attempt[1].gnu) = Range(attempt[1].json)
    /\ HasDuplicate(attempt[1].gnu)
    /\ Len(attempt[1].gnu) = NDIM
    /\ spec.gnu_order # DBLW

----------------------------------------------------------------------------
(* Decoding a text: loads(text, spec) *)

\* the most lines of a text handed to loads
MaxLines == 4

\* lines of the modelled texts: two rows of numbers, an empty line, a line of
\* whitespace and a comment
LineSet ==
    { <<"1", " ", "2">>, <<"3", " ", " ", "4">>, <<>>, <<" ", "\t">>,
      <<"#", "c">> }

\* the texts of at most n lines; a last empty line stands for a text that ends
\* with a line break
TextsOf(lines, n) ==
    {Join(<<NL>>, ls) : ls \in UNION {[1..m -> lines] : m \in 0..n}}

\* file orders the decoded texts are read under: the default, a rotation and
\* a swap
LoadGnuOrders == {DBLW, <<"w", "d", "b", "l">>, <<"b", "d", "l", "w">>}

InitLoads ==
    /\ \E c \in CommentInputs, gnu \in LoadGnuOrders, json \in Perms :
         spec = SpecOrder(SpecComment(SpecNew(HASH, DBLW, DBLW).val, c).val,
                          gnu, json).val
    /\ text \in TextsOf(LineSet, MaxLines)
    /\ orig = text
    /\ out = NoCall /\ ref = NoCall /\ edits = 0
    /\ pc = "start"
    /\ data = <<>> /\ s = NoCall
    /\ IdleCtor /\ IdleMemo

\* out = loads(text, spec)
LoadsText ==
    /\ pc = "start"
    /\ out' = loads(text, spec)
    /\ pc' = "done"
    /\ UNCHANGED <<spec, attempt, data, s, text, orig, ref, edits,
                   lookup, stack, log>>

NextLoads == LoadsText

SpecLoads == InitLoads /\ [][NextLoads]_vars

\* every line of the text is empty or whitespace
AllBlankText == is_blank(text)

\* C4: for any valid Spec, loads of a text that is empty or holds only blank
\* lines returns the empty dataset sequence [].
C4_LoadsBlankText ==
    (pc = "done" /\ AllBlankText) => out = Returned(<<>>)

\* the text decoded in file order: the same comment prefix, no permutation
FileOrderDecoding ==
    load(text, SpecNew(spec.comment, spec.gnu_order, spec.gnu_order).val)

\* the 0-based position of label c in order
PositionIn(order, c) == (CHOOSE p \in 1..Len(order) : order[p] = c) - 1

\* axisMap[k]: the position in fileOrder of the label at position k of
\* logicalOrder
AxisMap(k) == PositionIn(spec.gnu_order, spec.arr_order[k + 1])

\* C9: for a Spec with fileOrder # logicalOrder and a text whose file-order
\* decoding F is a rectangular grid of four levels, loads returns the grid L
\* with L[j0][j1][j2][j3] = F[i0][i1][i2][i3] where i[axisMap[k]] = j[k]: level
\* k of L has the length of level axisMap[k] of F and carries it.
C9_DecodeAxisMapping ==
    LET F == FileOrderDecoding
        sh == ShapeOf(F.val, NDIM)
    IN  (/\ pc = "done"
         /\ has_nontrivial_order(spec)
         /\ F.err = "" /\ sh.rect /\ Len(sh.dims) = NDIM) =>
            /\ out.err = ""
            /\ ShapeOf(out.val, NDIM).rect
            /\ ShapeOf(out.val, NDIM).dims =
                  [k \in 1..NDIM |-> sh.dims[AxisMap(k - 1) + 1]]
            /\ \A i0 \in 1..sh.dims[1], i1 \in 1..sh.dims[2],
                  i2 \in 1..sh.dims[3], i3 \in 1..sh.dims[4] :
                 LET i == <<i0, i1, i2, i3>>
                     j == [k \in 1..NDIM |-> i[AxisMap(k - 1) + 1]]
                 IN  out.val[j[1]][j[2]][j[3]][j[4]] = F.val[i0][i1][i2][i3]

C9_Witness ==
    /\ pc = "done"
    /\ has_nontrivial_order(spec)
    /\ spec.gnu_order # DBLW
    /\ spec.gnu_to_arr # spec.arr_to_gnu
    /\ FileOrderDecoding.err = ""
    /\ ShapeOf(FileOrderDecoding.val, NDIM).dims = <<2, 1, 1, 2>>
    /\ out.err = ""
    /\ ShapeOf(out.val, NDIM).dims # <<2, 1, 1, 2>>

----------------------------------------------------------------------------
(* Decoding a text and the same text with whole lines added *)

\* the most pieces of a text that lines are added to
MaxEditLines == 3

\* pieces of the texts that lines are added to: two rows of numbers, an empty
\* line, and two empty lines at once
EditLineSet == { <<"1", " ", "2">>, <<"3", " ", " ", "4">>, <<>>, <<NL>> }

\* the most comment lines added to a text
MaxInserts == 2

\* the most blank lines added to a text
MaxBlanks == 3

\* txt with a line break after its last line
Terminated(txt) ==
    IF txt = <<>> \/ txt[Len(txt)] = NL THEN txt ELSE Append(txt, NL)

\* txt with the whole line `line` added after its first p lines
InsertLine(txt, p, line) ==
    LET ls == FileLines(txt, <<>>)
    IN  IF p >= Len(ls) THEN Terminated(txt) \o line
        ELSE Flatten(SubSeq(ls, 1, p)) \o line \o <<NL>>
                \o Flatten(SubSeq(ls, p + 1, Len(ls)))

\* the orders the edited texts are read under
EditOrders == {DBLW, <<"w", "d", "b", "l">>}

\* lines whose stripped content starts with the prefix
CommentLines(prefix) ==
    {prefix \o <<"c">>, <<" ", "\t">> \o prefix \o <<" ", "1">>}

InitComment ==
    /\ \E json \in EditOrders : spec = SpecNew(HASH, DBLW, json).val
    /\ orig \in TextsOf(EditLineSet, MaxEditLines)
    /\ text = orig
    /\ out = NoCall /\ ref = NoCall /\ edits = 0
    /\ pc = "start"
    /\ data = <<>> /\ s = NoCall
    /\ IdleCtor /\ IdleMemo

\* a comment line is added to the text, after any of its lines or before them
InsertComment(p, line) ==
    /\ pc = "start"
    /\ edits < MaxInserts
    /\ p <= Len(FileLines(text, <<>>))
    /\ text' = InsertLine(text, p, line)
    /\ edits' = edits + 1
    /\ UNCHANGED <<spec, attempt, data, s, orig, out, ref, pc,
                   lookup, stack, log>>

\* ref = loads(orig, spec); out = loads(text, spec)
LoadsBoth ==
    /\ pc = "start"
    /\ ref' = loads(orig, spec)
    /\ out' = loads(text, spec)
    /\ pc' = "done"
    /\ UNCHANGED <<spec, attempt, data, s, text, orig, edits,
                   lookup, stack, log>>

NextComment ==
    \/ \E p \in 0..(MaxEditLines + MaxInserts), line \in CommentLines(spec.comment) :
         InsertComment(p, line)
    \/ LoadsBoth

SpecCommentLines == InitComment /\ [][NextComment]_vars

\* C6: with a non-empty comment prefix, a text decodes the same with whole
\* comment lines added at any positions: a comment line neither separates nor
\* splits a block.
C6_CommentLinesIgnored ==
    (pc = "done" /\ spec.comment # <<>>) => out = ref

C6_Witness ==
    /\ pc = "done" /\ spec.comment # <<>>
    /\ edits = 2
    /\ ref.err = "" /\ Len(ref.val) = 1 /\ Len(ref.val[1]) = 1
    /\ Len(ref.val[1][1]) = 2
    /\ \E p \in 1..(Len(text) - 5) :
         SubSeq(text, p, p + 5) = <<"2", NL, "#", "c", NL, " ">>
    /\ out = ref

InitBlank ==
    /\ spec = SpecNew(HASH, DBLW, DBLW).val
    /\ orig \in TextsOf(EditLineSet, MaxEditLines)
    /\ text = orig
    /\ out = NoCall /\ ref = NoCall /\ edits = 0
    /\ pc = "start"
    /\ data = <<>> /\ s = NoCall
    /\ IdleCtor /\ IdleMemo

\* a data line: one that is neither blank nor a comment
IsDataLine(line) ==
    LET st == Strip(line) IN st # <<>> /\ ~StartsWith(st, spec.comment)

DataLineIndices(txt) ==
    LET ls == FileLines(txt, <<>>) IN {i \in 1..Len(ls) : IsDataLine(ls[i])}

Min(S) == CHOOSE x \in S : \A y \in S : x <= y

Max(S) == CHOOSE x \in S : \A y \in S : x >= y

BlankLines == {<<>>, <<" ", "\t">>}

\* a blank line is added somewhere before the first data line of the text
AddLeadingBlank(p, line) ==
    /\ pc = "start"
    /\ edits < MaxBlanks
    /\ DataLineIndices(text) # {}
    /\ p < Min(DataLineIndices(text))
    /\ text' = InsertLine(text, p, line)
    /\ edits' = edits + 1
    /\ UNCHANGED <<spec, attempt, data, s, orig, out, ref, pc,
                   lookup, stack, log>>

\* a blank line is added somewhere after the last data line of the text
AddTrailingBlank(p, line) ==
    /\ pc = "start"
    /\ edits < MaxBlanks
    /\ DataLineIndices(text) # {}
    /\ p >= Max(DataLineIndices(text))
    /\ p <= Len(FileLines(text, <<>>))
    /\ text' = InsertLine(text, p, line)
    /\ edits' = edits + 1
    /\ UNCHANGED <<spec, attempt, data, s, orig, out, ref, pc,
                   lookup, stack, log>>

NextBlank ==
    \/ \E p \in 0..(MaxEditLines + MaxBlanks), line \in BlankLines :
         AddLeadingBlank(p, line)
    \/ \E p \in 0..(MaxEditLines + MaxBlanks), line \in BlankLines :
         AddTrailingBlank(p, line)
    \/ LoadsBoth

SpecBlankLines == InitBlank /\ [][NextBlank]_vars

\* C7: under the default Spec, blank lines added before the first data line or
\* after the last data line of a text change neither the number of datasets
\* decoded nor the number of blocks of any dataset.
C7_StrayBlankLinesAbsorbed ==
    pc = "done" =>
        /\ out.err = ref.err
        /\ Len(out.val) = Len(ref.val)
        /\ \A i \in DOMAIN ref.val : Len(out.val[i]) = Len(ref.val[i])

C7_Witness ==
    /\ pc = "done"
    /\ edits = MaxBlanks
    /\ StartsWith(text, <<NL, " ", "\t", NL, NL, "1">>)
    /\ ref.err = "" /\ Len(ref.val) = 1 /\ Len(ref.val[1]) = 1
    /\ Len(ref.val[1][1]) = 2
    /\ Len(out.val) = 1

----------------------------------------------------------------------------
(* memoize: wrapped around a function func *)

\* the most calls of wrapped in one run
MaxCalls == 4

\* hashable argument tuples
Args == {<<"1">>, <<"2">>}

\* an argument tuple that holds a list: it cannot be hashed
Unhashable == <<"[]">>

\* values func returns
Vals == {0, 1}

\* lookup = {}; no call has been made.  stack holds the argument tuples of the
\* calls of func that have not returned yet, the innermost last.  log is the
\* history: the number of calls made, the last event, how many times func was
\* invoked with each tuple, and the results of the calls that returned.
InitMemo ==
    /\ lookup = <<>>
    /\ stack = <<>>
    /\ log = [n |-> 0,
              last |-> [op |-> "none", args |-> <<>>, val |-> 0],
              runs |-> [a \in Args |-> 0],
              results |-> [a \in Args |-> {}]]
    /\ spec = SpecNew(HASH, DBLW, DBLW).val
    /\ pc = "start"
    /\ data = <<>> /\ s = NoCall /\ out = NoCall
    /\ IdleCtor /\ IdleText

UnchangedCodec == UNCHANGED <<spec, attempt, data, s, text, orig, out, ref, edits, pc>>

\* mutant of InLookup: the test for a recorded result is missing
InLookup_Never(a) == FALSE

\* line 122: args in lookup
InLookup(a) == a \in DOMAIN lookup

\* line 123: lookup[args] = <the value func returned>
Store(a, v) == (a :> v) @@ lookup

\* wrapped(a) is called, by the program or by the invocation of func on top
\* of the stack, with a in lookup: it returns lookup[a]
CallHit(a) ==
    /\ log.n < MaxCalls
    /\ InLookup(a)
    /\ log' = [log EXCEPT !.n = @ + 1,
                          !.last = [op |-> "hit", args |-> a, val |-> lookup[a]],
                          !.results[a] = @ \cup {lookup[a]}]
    /\ UNCHANGED <<lookup, stack>>
    /\ UnchangedCodec

\* wrapped(a) is called with a not in lookup: func(a) is invoked
CallMiss(a) ==
    /\ log.n < MaxCalls
    /\ ~InLookup(a)
    /\ stack' = Append(stack, a)
    /\ log' = [log EXCEPT !.n = @ + 1,
                          !.last = [op |-> "miss", args |-> a, val |-> 0],
                          !.runs[a] = @ + 1]
    /\ UNCHANGED lookup
    /\ UnchangedCodec

\* wrapped with an argument that cannot be hashed: `args not in lookup`
\* raises TypeError
CallUnhashable ==
    /\ log.n < MaxCalls
    /\ log' = [log EXCEPT !.n = @ + 1,
                          !.last = [op |-> "TypeError", args |-> Unhashable, val |-> 0]]
    /\ UNCHANGED <<lookup, stack>>
    /\ UnchangedCodec

\* the innermost invocation of func returns v: wrapped stores it and returns
\* lookup[args]
FuncReturns(v) ==
    /\ stack # <<>>
    /\ LET a == stack[Len(stack)]
       IN  /\ lookup' = Store(a, v)
           /\ log' = [log EXCEPT !.last = [op |-> "return", args |-> a,
                                           val |-> lookup'[a]],
                                 !.results[a] = @ \cup {lookup'[a]}]
    /\ stack' = ButLast(stack)
    /\ UnchangedCodec

\* the innermost invocation of func raises: the exception leaves wrapped before
\* the assignment
FuncRaises ==
    /\ stack # <<>>
    /\ log' = [log EXCEPT !.last = [op |-> "raise", args |-> stack[Len(stack)],
                                    val |-> 0]]
    /\ stack' = ButLast(stack)
    /\ UNCHANGED lookup
    /\ UnchangedCodec

NextMemo ==
    \/ \E a \in Args : CallHit(a)
    \/ \E a \in Args : CallMiss(a)
    \/ CallUnhashable
    \/ \E v \in Vals : FuncReturns(v)
    \/ FuncRaises

SpecMemo == InitMemo /\ [][NextMemo]_vars

\* a call of wrapped with a has returned
HasReturned(a) == log.results[a] # {}

====
